---- MODULE Spec2Model ----
(***************************************************************************)
(* Model of tracing-serde-structured (src/src/lib.rs, feature "std").      *)
(*                                                                         *)
(* Strings are sequences of byte values.  A CowString is a record          *)
(* [tag, s]; a RecordMap (std BTreeMap) is the sequence of its entries in  *)
(* iteration order, i.e. strictly ascending under the key's Ord.           *)
(* The downstream serde serializer is a deterministic token recorder: a    *)
(* map is the sequence of <<key text, value token>> entries handed to it.  *)
(***************************************************************************)
EXTENDS Integers, Sequences, FiniteSets, TLC

(* ------------------------------ bounds --------------------------------- *)
MaxFields == 2
MaxStrLen == 2

Chars == {97, 98}
Strs == UNION {[1..n -> Chars] : n \in 0..MaxStrLen}
Names == {<<97>>, <<98>>}
None == [kind |-> "None"]

(* ------------------------------ str ------------------------------------ *)
\* Ord for str: bytewise lexicographic comparison.
RECURSIVE str_cmp(_, _)
str_cmp(s, t) ==
    IF s = <<>> /\ t = <<>> THEN "Equal"
    ELSE IF s = <<>> THEN "Less"
    ELSE IF t = <<>> THEN "Greater"
    ELSE IF Head(s) < Head(t) THEN "Less"
    ELSE IF Head(s) > Head(t) THEN "Greater"
    ELSE str_cmp(Tail(s), Tail(t))

\* Hash for str (core::hash and hash32 alike): the bytes, then 0xff.
str_hash(s) == Append(s, 255)

(* ------------------------------ CowString ------------------------------ *)
Borrowed(s) == [tag |-> "Borrowed", s |-> s]
Owned(s) == [tag |-> "Owned", s |-> s]
CowStrings == {Borrowed(s) : s \in Strs} \cup {Owned(s) : s \in Strs}

as_str(c) == c.s

\* Mutant: the value is handed back as it is, a borrowed slice staying borrowed.
CowString_to_owned_shallow(c) == c

CowString_to_owned(c) == Owned(as_str(c))

\* ToString for str: a new String, the bytes of s copied into it once.
str_to_string(s) == [s |-> s, copies |-> 1]

\* Mutant: the content is copied only out of a borrowed slice.
CowString_to_owned_copies_borrowed(c) == IF c.tag = "Borrowed" THEN 1 ELSE 0

\* The copies to_owned makes: self.as_str().to_string(), whichever the variant.
CowString_to_owned_copies(c) == str_to_string(as_str(c)).copies

CowString_hash(c) == str_hash(as_str(c))

CowString_hash32(c) == str_hash(as_str(c))

\* Mutant: the derived equality, which compares the variant too.
CowString_eq_derived(a, b) == a = b

CowString_eq(a, b) == as_str(a) = as_str(b)

\* Position of a variant in the enum declaration.
CowString_discriminant(c) == IF c.tag = "Borrowed" THEN 0 ELSE 1

\* derive(PartialOrd, Ord) on an enum: variant order first, payload second.
CowString_cmp(a, b) ==
    IF CowString_discriminant(a) < CowString_discriminant(b) THEN "Less"
    ELSE IF CowString_discriminant(a) > CowString_discriminant(b) THEN "Greater"
    ELSE str_cmp(a.s, b.s)

CowString_from(s) == Borrowed(s)

(* ------------------------------ SerializeLevel ------------------------- *)
Levels == {"Trace", "Debug", "Info", "Warn", "Error"}

SerializeLevel_discriminant(l) ==
    CASE l = "Trace" -> 0
      [] l = "Debug" -> 1
      [] l = "Info" -> 2
      [] l = "Warn" -> 3
      [] l = "Error" -> 4

\* The traits derived for SerializeLevel.
SerializeLevel_derives ==
    {"Copy", "Clone", "Debug", "Hash", "Eq", "PartialEq", "Serialize", "Deserialize"}

\* The comparison the type offers: the derived one (by discriminant) when
\* PartialOrd is derived, none otherwise.
SerializeLevel_partial_cmp(a, b) ==
    IF "PartialOrd" \notin SerializeLevel_derives THEN "Unimplemented"
    ELSE IF SerializeLevel_discriminant(a) < SerializeLevel_discriminant(b) THEN "Less"
    ELSE IF SerializeLevel_discriminant(a) > SerializeLevel_discriminant(b) THEN "Greater"
    ELSE "Equal"

(* ------------------------------ TracingMap (BTreeMap) ------------------ *)
\* Number of entries whose key orders before k.
RECURSIVE BTree_rank(_, _)
BTree_rank(m, k) ==
    IF m = <<>> THEN 0
    ELSE (IF CowString_cmp(m[1].k, k) = "Less" THEN 1 ELSE 0) + BTree_rank(Tail(m), k)

\* BTreeMap::insert: replaces the value of a key that compares Equal (the
\* stored key is kept), otherwise adds the entry at its place in key order.
BTreeMap_insert(m, k, v) ==
    LET r == BTree_rank(m, k) IN
    IF r < Len(m) /\ CowString_cmp(m[r + 1].k, k) = "Equal"
    THEN [m EXCEPT ![r + 1].v = v]
    ELSE SubSeq(m, 1, r) \o <<[k |-> k, v |-> v]>> \o SubSeq(m, r + 1, Len(m))

\* FromIterator / Deserialize for BTreeMap: the entries in turn, a later
\* entry replacing an earlier one with an Equal key.
RECURSIVE BTreeMap_collect(_, _)
BTreeMap_collect(m, es) ==
    IF es = <<>> THEN m
    ELSE BTreeMap_collect(BTreeMap_insert(m, es[1].k, es[1].v), Tail(es))

(* ------------------------------ field values --------------------------- *)
\* Values the instrumentation framework dispatches, by callback kind.
DebugVals == {7}
FieldValues ==
    {[kind |-> "bool", val |-> TRUE], [kind |-> "i64", val |-> 1],
     [kind |-> "u64", val |-> 1], [kind |-> "f64", val |-> 1],
     [kind |-> "str", val |-> <<97>>]}
    \cup {[kind |-> "debug", val |-> d] : d \in DebugVals}

\* format_args!("{:?}", value) / format!("{:?}", value) / args.to_string():
\* the decimal digit of the (single digit) value.
fmt_debug(d) == <<48 + d>>

(* ------------------------------ DebugRecord ---------------------------- *)
DebugRecord_Ser(args) == [kind |-> "Ser", val |-> args]
DebugRecord_De(msg) == [kind |-> "De", val |-> msg]

DebugRecord_from(cow) == DebugRecord_De(cow)

\* Ser: Arguments serializes through collect_str; De: the stored text.
DebugRecord_serialize(dr) ==
    IF dr.kind = "Ser" THEN fmt_debug(dr.val) ELSE as_str(dr.val)

DebugRecord_to_owned(dr) ==
    IF dr.kind = "Ser" THEN DebugRecord_De(Owned(fmt_debug(dr.val)))
    ELSE DebugRecord_De(CowString_to_owned(dr.val))

(* ------------------------------ SerializeValue ------------------------- *)
SerializeValue(kind, val) == [kind |-> kind, val |-> val]

\* Mutant: the payload is written as it is, in no variant.
SerializeValue_serialize_untagged(v) ==
    CASE v.kind = "Debug" -> [kind |-> "bare", val |-> DebugRecord_serialize(v.val)]
      [] v.kind = "Str" -> [kind |-> "bare", val |-> as_str(v.val)]
      [] OTHER -> [kind |-> "bare", val |-> v.val]

\* derive(Serialize): a newtype variant, the variant's name and its payload.
SerializeValue_serialize(v) ==
    CASE v.kind = "Debug" -> [kind |-> "Debug", val |-> DebugRecord_serialize(v.val)]
      [] v.kind = "Str" -> [kind |-> "Str", val |-> as_str(v.val)]
      [] OTHER -> [kind |-> v.kind, val |-> v.val]

\* derive(Deserialize): the payload read as the variant's type; strings are
\* read as CowString, which is built from a borrowed &str.
SerializeValue_deserialize(tok) ==
    CASE tok.kind = "Debug" -> SerializeValue("Debug", DebugRecord_from(CowString_from(tok.val)))
      [] tok.kind = "Str" -> SerializeValue("Str", CowString_from(tok.val))
      [] OTHER -> SerializeValue(tok.kind, tok.val)

SerializeValue_to_owned(v) ==
    CASE v.kind = "Debug" -> SerializeValue("Debug", DebugRecord_to_owned(v.val))
      [] v.kind = "Str" -> SerializeValue("Str", CowString_to_owned(v.val))
      [] OTHER -> SerializeValue(v.kind, v.val)

(* ------------------------------ entities ------------------------------- *)
\* A borrowed entity (Event, ValueSet, Record): its field slots in
\* declaration order, each with a value or none.
Slots == [name : Names, value : FieldValues \cup {None}]
Entities == UNION {[1..n -> Slots] : n \in 0..MaxFields}

\* Entity::record(visitor): one callback per slot that holds a value, in order.
pushes(e) == SelectSeq(e, LAMBDA f : f.value # None)

\* fields().count() / len(): the number of slots.
items(e) == Len(e)

(* ------------------------------ downstream serializer ------------------ *)
Ok(x) == [kind |-> "Ok", out |-> x]
Err(src, k) == [kind |-> "Err", src |-> src, k |-> k]
StateOk == [kind |-> "Ok"]

\* serializer.serialize_map(Some(len)): an open map context.
serialize_map(len) == [len |-> len, entries |-> <<>>, calls |-> 0, ended |-> 0]

\* SerializeMap::serialize_entry: the call is counted; the entry is
\* committed only when the downstream serializer accepts it.
serialize_entry(ser, name, value, ok) ==
    [ser EXCEPT !.calls = @ + 1,
                !.entries = IF ok THEN Append(@, <<name, SerializeValue_serialize(value)>>)
                            ELSE @]

\* SerializeMap::end.
end(ser) == [ser EXCEPT !.ended = @ + 1]

\* What a closed map leaves in the output.
output(ser) == [len |-> ser.len, entries |-> ser.entries]

(* ------------------------------ state ---------------------------------- *)
VARIABLES
    live,      \* the Live wrapper: [kind |-> "Ser", entity], or None
    visitor,   \* the SerdeMapVisitor: [serializer, state], or None
    pos,       \* callbacks the entity's record() has made so far
    pc,        \* "idle", "record" (inside the wrapper's serialize), "done"
    result,    \* what serializing the Live wrapper returned, or None
    mat,       \* a Materialized wrapper: [kind |-> "De", map], or None
    matFrom,   \* the operation that produced mat
    matOut,    \* what serializing mat returned, or None
    prev,      \* [mat, out]: the wrapper (and serialized form) mat was made from
    meta,      \* a SerializeMetadata: [src, val], or None
    metaOut,   \* what serializing meta returned, or None
    opRes,     \* the last CowString / SerializeLevel operation and its result
    event,     \* a SerializeEvent and the Event it was made of: [src, of, val], or None
    eventOut   \* what serializing event returned, or None

vars == <<live, visitor, pos, pc, result, mat, matFrom, matOut, prev, meta, metaOut, opRes,
          event, eventOut>>

NoOp == [op |-> "none"]

(* ------------------------------ SerdeMapVisitor ------------------------ *)
SerdeMapVisitor_new(serializer) == [serializer |-> serializer, state |-> StateOk]

\* Mutant: the entry is serialized whatever the recorded state.
record_entry_unguarded(v, name, value, ok) ==
    [serializer |-> serialize_entry(v.serializer, name, value, ok),
     state |-> IF ok THEN StateOk ELSE Err("entry", v.serializer.calls + 1)]

\* Mutant: a field whose name was already written is dropped.
record_entry_dedup(v, name, value, ok) ==
    IF v.state.kind = "Ok"
       /\ \A i \in 1..Len(v.serializer.entries) : v.serializer.entries[i][1] # name
    THEN [serializer |-> serialize_entry(v.serializer, name, value, ok),
          state |-> IF ok THEN StateOk ELSE Err("entry", v.serializer.calls + 1)]
    ELSE v

\* The body shared by the record_* callbacks: one serialize_entry call when
\* no error is recorded, nothing otherwise.
record_entry(v, name, value, ok) ==
    IF v.state.kind = "Ok"
    THEN [serializer |-> serialize_entry(v.serializer, name, value, ok),
          state |-> IF ok THEN StateOk ELSE Err("entry", v.serializer.calls + 1)]
    ELSE v

\* The callback the entity makes next.
next_push == pushes(live.entity)[pos + 1]

Dispatching(kind) ==
    /\ pc = "record"
    /\ pos < Len(pushes(live.entity))
    /\ next_push.value.kind = kind

Recorded(value) ==
    /\ \E ok \in BOOLEAN :
          visitor' = record_entry(visitor, next_push.name, value, ok)
    /\ pos' = pos + 1
    /\ UNCHANGED <<live, pc, result, mat, matFrom, matOut, prev, meta, metaOut, opRes, event, eventOut>>

record_bool ==
    /\ Dispatching("bool")
    /\ Recorded(SerializeValue("Bool", next_push.value.val))

record_debug ==
    /\ Dispatching("debug")
    /\ Recorded(SerializeValue("Debug", DebugRecord_Ser(next_push.value.val)))

record_u64 ==
    /\ Dispatching("u64")
    /\ Recorded(SerializeValue("U64", next_push.value.val))

record_i64 ==
    /\ Dispatching("i64")
    /\ Recorded(SerializeValue("I64", next_push.value.val))

record_f64 ==
    /\ Dispatching("f64")
    /\ Recorded(SerializeValue("F64", next_push.value.val))

record_str ==
    /\ Dispatching("str")
    /\ Recorded(SerializeValue("Str", CowString_from(next_push.value.val)))

\* Mutant: the map is closed before the recorded state is looked at.
finish_closes_first ==
    /\ pc = "record"
    /\ pos = Len(pushes(live.entity))
    /\ \E ok \in BOOLEAN :
         /\ visitor' = [visitor EXCEPT !.serializer = end(@)]
         /\ result' = IF visitor.state.kind = "Err" THEN visitor.state
                      ELSE IF ok THEN Ok(output(visitor.serializer)) ELSE Err("end", 0)
    /\ pc' = "done"
    /\ UNCHANGED <<live, pos, mat, matFrom, matOut, prev, meta, metaOut, opRes, event, eventOut>>

\* self.state?; self.serializer.end()
finish ==
    /\ pc = "record"
    /\ pos = Len(pushes(live.entity))
    /\ IF visitor.state.kind = "Err"
       THEN /\ result' = visitor.state
            /\ UNCHANGED visitor
       ELSE \E ok \in BOOLEAN :
            /\ visitor' = [visitor EXCEPT !.serializer = end(@)]
            /\ result' = IF ok THEN Ok(output(visitor.serializer)) ELSE Err("end", 0)
    /\ pc' = "done"
    /\ UNCHANGED <<live, pos, mat, matFrom, matOut, prev, meta, metaOut, opRes, event, eventOut>>

\* Mutant: the map is closed before the context is handed back.
take_serializer_closes ==
    /\ pc = "record"
    /\ pos = Len(pushes(live.entity))
    /\ visitor' = [visitor EXCEPT !.serializer = end(@)]
    /\ result' = IF visitor.state.kind = "Err" THEN visitor.state
                 ELSE [kind |-> "Taken", ser |-> end(visitor.serializer)]
    /\ pc' = "done"
    /\ UNCHANGED <<live, pos, mat, matFrom, matOut, prev, meta, metaOut, opRes, event, eventOut>>

\* self.state?; Ok(self.serializer)
take_serializer ==
    /\ pc = "record"
    /\ pos = Len(pushes(live.entity))
    /\ result' = IF visitor.state.kind = "Err" THEN visitor.state
                 ELSE [kind |-> "Taken", ser |-> visitor.serializer]
    /\ pc' = "done"
    /\ UNCHANGED <<live, visitor, pos, mat, matFrom, matOut, prev, meta, metaOut, opRes, event, eventOut>>

(* ------------------------------ Serialize, Live ------------------------ *)
\* The Ser arm of Serialize for a map wrapper, up to the entity's record():
\* the map is opened with the entity's item count and handed to a visitor.
Serialize_Ser ==
    /\ pc = "idle"
    /\ live # None
    /\ \E ok \in BOOLEAN :
         IF ok
         THEN /\ visitor' = SerdeMapVisitor_new(serialize_map(items(live.entity)))
              /\ pos' = 0
              /\ pc' = "record"
              /\ UNCHANGED result
         ELSE /\ result' = Err("open", 0)
              /\ pc' = "done"
              /\ UNCHANGED <<visitor, pos>>
    /\ UNCHANGED <<live, mat, matFrom, matOut, prev, meta, metaOut, opRes, event, eventOut>>

SerializeRecordFields_serialize_Ser == Serialize_Ser

SerializeSpanFields_serialize_Ser == Serialize_Ser

SerializeRecord_serialize_Ser == Serialize_Ser

(* ------------------------------ to_owned, Live ------------------------- *)
\* HashVisit::record_*: insert the owned name and the owned value.
HashVisit_record(m, f) ==
    BTreeMap_insert(m, Owned(f.name),
        CASE f.value.kind = "bool" -> SerializeValue("Bool", f.value.val)
          [] f.value.kind = "debug" ->
                SerializeValue("Debug", DebugRecord_De(Owned(fmt_debug(f.value.val))))
          [] f.value.kind = "u64" -> SerializeValue("U64", f.value.val)
          [] f.value.kind = "i64" -> SerializeValue("I64", f.value.val)
          [] f.value.kind = "f64" -> SerializeValue("F64", f.value.val)
          [] f.value.kind = "str" -> SerializeValue("Str", Owned(f.value.val)))

\* e.record(&mut hv) on HashVisit(BTreeMap::new()): every callback in turn.
RECURSIVE HashVisit_visit(_, _)
HashVisit_visit(m, ps) ==
    IF ps = <<>> THEN m ELSE HashVisit_visit(HashVisit_record(m, ps[1]), Tail(ps))

De(map) == [kind |-> "De", map |-> map]
Ser(entity) == [kind |-> "Ser", entity |-> entity]

\* The Ser arm of to_owned.
to_owned_Ser ==
    /\ pc # "record"
    /\ live # None
    /\ mat' = De(HashVisit_visit(<<>>, pushes(live.entity)))
    /\ matFrom' = "to_owned_Ser"
    /\ matOut' = None
    /\ prev' = [mat |-> live, out |-> None]
    /\ UNCHANGED <<live, visitor, pos, pc, result, meta, metaOut, opRes, event, eventOut>>

\* dsrf.iter().map(|(k, v)| (k.to_owned(), v.to_owned())): in iteration order.
owned_entries(m) ==
    [i \in 1..Len(m) |->
        [k |-> CowString_to_owned(m[i].k), v |-> SerializeValue_to_owned(m[i].v)]]

\* The De arm of to_owned: the owned entries collected into a new map.
to_owned_De ==
    /\ pc # "record"
    /\ mat # None
    /\ mat' = De(BTreeMap_collect(<<>>, owned_entries(mat.map)))
    /\ matFrom' = "to_owned_De"
    /\ matOut' = None
    /\ prev' = [mat |-> mat, out |-> None]
    /\ UNCHANGED <<live, visitor, pos, pc, result, meta, metaOut, opRes, event, eventOut>>

SerializeRecordFields_to_owned ==
    to_owned_Ser \/ to_owned_De

SerializeSpanFields_to_owned ==
    to_owned_Ser \/ to_owned_De

SerializeRecord_to_owned ==
    to_owned_Ser \/ to_owned_De

(* ------------------------------ Serialize, Materialized ---------------- *)
\* Serialize for the map (collect_map): the entries in iteration order, the
\* key as its text.
map_entries(m) ==
    [i \in 1..Len(m) |-> <<as_str(m[i].k), SerializeValue_serialize(m[i].v)>>]

\* The De arm of Serialize: derf.serialize(serializer), the map written to a
\* downstream serializer that accepts it (a downstream failure is returned
\* as it is; no code of the wrapper runs on it).
Serialize_De ==
    /\ pc # "record"
    /\ mat # None
    /\ matOut' = Ok([len |-> Len(mat.map), entries |-> map_entries(mat.map)])
    /\ UNCHANGED <<live, visitor, pos, pc, result, mat, matFrom, prev, meta, metaOut, opRes, event, eventOut>>

SerializeRecordFields_serialize_De == Serialize_De

SerializeSpanFields_serialize_De == Serialize_De

SerializeRecord_serialize_De == Serialize_De

(* ------------------------------ Deserialize ---------------------------- *)
\* Deserialize for RecordMap: each entry read as (CowString, SerializeValue)
\* and inserted in the order read.
RecordMap_deserialize(entries) ==
    BTreeMap_collect(<<>>,
        [i \in 1..Len(entries) |->
            [k |-> CowString_from(entries[i][1]),
             v |-> SerializeValue_deserialize(entries[i][2])]])

\* Mutant: the converted wrapper is tagged as the Live variant.
From_RecordMap_live(map) == [kind |-> "Ser", map |-> map]

\* From<RecordMap> for the map wrappers.
From_RecordMap(map) == De(map)

\* serde(from = "RecordMap"): the map is deserialized, then converted.
Deserialize ==
    /\ pc # "record"
    /\ mat # None
    /\ matOut.kind = "Ok"
    /\ mat' = From_RecordMap(RecordMap_deserialize(matOut.out.entries))
    /\ matFrom' = "deserialize"
    /\ matOut' = None
    /\ prev' = [mat |-> mat, out |-> matOut]
    /\ UNCHANGED <<live, visitor, pos, pc, result, meta, metaOut, opRes, event, eventOut>>

SerializeRecordFields_deserialize == Deserialize

SerializeSpanFields_deserialize == Deserialize

SerializeRecord_deserialize == Deserialize

(* ------------------------------ SerializeFieldSet ---------------------- *)
Some(x) == [kind |-> "Some", val |-> x]

\* Option::map / Option::as_ref().map over a CowString or a &str.
Option_from(o) == IF o = None THEN None ELSE Some(CowString_from(o.val))
Option_to_owned(o) == IF o = None THEN None ELSE Some(CowString_to_owned(o.val))
Option_as_str(o) == IF o = None THEN None ELSE Some(as_str(o.val))

FieldSet_Ser(names) == [kind |-> "Ser", names |-> names]
FieldSet_De(vec) == [kind |-> "De", vec |-> vec]

\* Ser: a sequence of the declared names; De: the vector, each CowString as
\* its text.  Written to a downstream serializer that accepts it (its
\* failures are returned as they are by the ? operators).
SerializeFieldSet_serialize(fs) ==
    IF fs.kind = "Ser" THEN fs.names
    ELSE [i \in 1..Len(fs.vec) |-> as_str(fs.vec[i])]

\* From<TracingVec<CowString>>
SerializeFieldSet_from(vec) == FieldSet_De(vec)

\* serde(from = "TracingVec<CowString>"): the vector is deserialized, each
\* element as a CowString, then converted.
SerializeFieldSet_deserialize(toks) ==
    SerializeFieldSet_from([i \in 1..Len(toks) |-> CowString_from(toks[i])])

SerializeFieldSet_to_owned(fs) ==
    IF fs.kind = "Ser"
    THEN FieldSet_De([i \in 1..Len(fs.names) |-> CowString_to_owned(CowString_from(fs.names[i]))])
    ELSE FieldSet_De([i \in 1..Len(fs.vec) |-> CowString_to_owned(fs.vec[i])])

(* ------------------------------ SerializeLevel, Metadata --------------- *)
TracingLevels == {"ERROR", "WARN", "INFO", "DEBUG", "TRACE"}

\* AsSerde for Level
Level_as_serde(l) ==
    CASE l = "ERROR" -> "Error"
      [] l = "WARN" -> "Warn"
      [] l = "INFO" -> "Info"
      [] l = "DEBUG" -> "Debug"
      [] l = "TRACE" -> "Trace"

\* derive(Serialize), rename_all = "UPPERCASE": the variant's name in capitals.
SerializeLevel_serialize(l) ==
    CASE l = "Trace" -> "TRACE"
      [] l = "Debug" -> "DEBUG"
      [] l = "Info" -> "INFO"
      [] l = "Warn" -> "WARN"
      [] l = "Error" -> "ERROR"

\* derive(Deserialize), rename_all = "UPPERCASE".
SerializeLevel_deserialize(tok) ==
    CASE tok = "TRACE" -> "Trace"
      [] tok = "DEBUG" -> "Debug"
      [] tok = "INFO" -> "Info"
      [] tok = "WARN" -> "Warn"
      [] tok = "ERROR" -> "Error"

\* The callsite metadata the framework hands out.
Metadatas ==
    [name : {<<97>>}, target : {<<98>>}, level : TracingLevels,
     module_path : {None, Some(<<97, 98>>)}, file : {None, Some(<<98, 97>>)},
     line : {None, Some(88)},
     fields : UNION {[1..n -> Names] : n \in 0..MaxFields},
     is_span : BOOLEAN, is_event : BOOLEAN]

\* AsSerde for Metadata
Metadata_as_serde(md) ==
    [name |-> CowString_from(md.name),
     target |-> CowString_from(md.target),
     level |-> Level_as_serde(md.level),
     module_path |-> Option_from(md.module_path),
     file |-> Option_from(md.file),
     line |-> md.line,
     fields |-> FieldSet_Ser(md.fields),
     is_span |-> md.is_span,
     is_event |-> md.is_event]

Metadata_to_owned(m) ==
    [name |-> CowString_to_owned(m.name),
     target |-> CowString_to_owned(m.target),
     level |-> m.level,
     module_path |-> Option_to_owned(m.module_path),
     file |-> Option_to_owned(m.file),
     line |-> m.line,
     fields |-> SerializeFieldSet_to_owned(m.fields),
     is_span |-> m.is_span,
     is_event |-> m.is_event]

\* derive(Serialize): a struct of the nine fields.
Metadata_serialize(m) ==
    [name |-> as_str(m.name),
     target |-> as_str(m.target),
     level |-> SerializeLevel_serialize(m.level),
     module_path |-> Option_as_str(m.module_path),
     file |-> Option_as_str(m.file),
     line |-> m.line,
     fields |-> SerializeFieldSet_serialize(m.fields),
     is_span |-> m.is_span,
     is_event |-> m.is_event]

\* derive(Deserialize), serde(borrow).
Metadata_deserialize(tok) ==
    [name |-> CowString_from(tok.name),
     target |-> CowString_from(tok.target),
     level |-> SerializeLevel_deserialize(tok.level),
     module_path |-> Option_from(tok.module_path),
     file |-> Option_from(tok.file),
     line |-> tok.line,
     fields |-> SerializeFieldSet_deserialize(tok.fields),
     is_span |-> tok.is_span,
     is_event |-> tok.is_event]

SerializeMetadata_to_owned ==
    /\ meta # None
    /\ meta' = [src |-> "to_owned", val |-> Metadata_to_owned(meta.val)]
    /\ metaOut' = None
    /\ UNCHANGED <<live, visitor, pos, pc, result, mat, matFrom, matOut, prev, opRes, event, eventOut>>

SerializeMetadata_serialize ==
    /\ meta # None
    /\ metaOut' = Ok(Metadata_serialize(meta.val))
    /\ UNCHANGED <<live, visitor, pos, pc, result, mat, matFrom, matOut, prev, meta, opRes, event, eventOut>>

SerializeMetadata_deserialize ==
    /\ meta # None
    /\ metaOut.kind = "Ok"
    /\ meta' = [src |-> "deserialize", val |-> Metadata_deserialize(metaOut.out)]
    /\ metaOut' = None
    /\ UNCHANGED <<live, visitor, pos, pc, result, mat, matFrom, matOut, prev, opRes, event, eventOut>>

(* ------------------------------ SerializeEvent ------------------------- *)
\* The SerializeValue a record_* callback of SerdeMapVisitor wraps its value in.
Visit_value(value) ==
    CASE value.kind = "bool" -> SerializeValue("Bool", value.val)
      [] value.kind = "debug" -> SerializeValue("Debug", DebugRecord_Ser(value.val))
      [] value.kind = "u64" -> SerializeValue("U64", value.val)
      [] value.kind = "i64" -> SerializeValue("I64", value.val)
      [] value.kind = "f64" -> SerializeValue("F64", value.val)
      [] value.kind = "str" -> SerializeValue("Str", CowString_from(value.val))

\* serf.record(&mut ssv): every callback in turn; oks[i] tells whether the
\* downstream serializer accepts the entry of the i-th callback.
RECURSIVE Visit_record(_, _, _)
Visit_record(v, ps, oks) ==
    IF ps = <<>> THEN v
    ELSE Visit_record(record_entry(v, Head(ps).name, Visit_value(Head(ps).value), Head(oks)),
                      Tail(ps), Tail(oks))

\* Serialize for SerializeRecordFields as one call. Ser: the map opened with
\* the field count, the entity visited, the visitor finished. De: the map.
RecordFields_serialize(f, okOpen, oks, okEnd) ==
    IF f.kind = "De"
    THEN Ok([len |-> Len(f.map), entries |-> map_entries(f.map)])
    ELSE IF ~okOpen THEN Err("open", 0)
    ELSE LET ssv == Visit_record(SerdeMapVisitor_new(serialize_map(items(f.entity))),
                                 pushes(f.entity), oks)
         IN  IF ssv.state.kind = "Err" THEN ssv.state
             ELSE IF okEnd THEN Ok(output(ssv.serializer))
             ELSE Err("end", 0)

\* SerializeRecordFields::to_owned as one call.
RecordFields_to_owned(f) ==
    IF f.kind = "Ser"
    THEN De(HashVisit_visit(<<>>, pushes(f.entity)))
    ELSE De(BTreeMap_collect(<<>>, owned_entries(f.map)))

\* AsSerde for span::Id
Id_as_serde(id) == [id |-> id]

\* Option<Id>::map(|p| p.as_serde())
Option_Id_as_serde(o) == IF o = None THEN None ELSE Some(Id_as_serde(o.val))

\* The field names and values an event of the request scenario carries:
\* "code" and "msg"; the u64 404 and the str "not found".
EventNames == {<<99, 111, 100, 101>>, <<109, 115, 103>>}
EventValues ==
    {[kind |-> "u64", val |-> 404],
     [kind |-> "str", val |-> <<110, 111, 116, 32, 102, 111, 117, 110, 100>>]}

\* The callsite metadata of such an event: name "request", target "svc".
EventMetadatas ==
    [name : {<<114, 101, 113, 117, 101, 115, 116>>}, target : {<<115, 118, 99>>},
     level : TracingLevels,
     module_path : {None}, file : {None},
     line : {None, Some(88)},
     fields : UNION {[1..n -> EventNames] : n \in 0..MaxFields},
     is_span : {FALSE}, is_event : {TRUE}]

\* The events the framework hands out: the field slots are those the
\* callsite's metadata declares, each with a value or none.
Events ==
    {ev \in [fields : UNION {[1..n -> [name : EventNames, value : EventValues \cup {None}]]
                                : n \in 0..MaxFields},
             metadata : EventMetadatas,
             parent : {None, Some(1)}] :
        /\ Len(ev.fields) = Len(ev.metadata.fields)
        /\ \A i \in 1..Len(ev.fields) : ev.fields[i].name = ev.metadata.fields[i]}

\* AsSerde for Event
Event_as_serde(ev) ==
    [fields |-> Ser(ev.fields),
     metadata |-> Metadata_as_serde(ev.metadata),
     parent |-> Option_Id_as_serde(ev.parent)]

\* derive(Serialize) on SerializeEvent: a struct of the three fields, written
\* in the order declared; the first error is returned.
SerializeEvent_serialize ==
    /\ event # None
    /\ eventOut = None
    /\ \E okOpen \in BOOLEAN, okEnd \in BOOLEAN, oks \in [1..MaxFields -> BOOLEAN] :
          LET fields == RecordFields_serialize(event.val.fields, okOpen, oks, okEnd)
          IN  eventOut' =
                IF fields.kind = "Err" THEN fields
                ELSE Ok([fields |-> fields.out,
                         metadata |-> Metadata_serialize(event.val.metadata),
                         parent |-> event.val.parent])
    /\ UNCHANGED <<live, visitor, pos, pc, result, mat, matFrom, matOut, prev, meta, metaOut,
                   opRes, event>>

SerializeEvent_to_owned ==
    /\ event # None
    /\ event' = [src |-> "to_owned", of |-> event.of,
                 val |-> [fields |-> RecordFields_to_owned(event.val.fields),
                          metadata |-> Metadata_to_owned(event.val.metadata),
                          parent |-> event.val.parent]]
    /\ eventOut' = None
    /\ UNCHANGED <<live, visitor, pos, pc, result, mat, matFrom, matOut, prev, meta, metaOut,
                   opRes>>

(* ------------------------------ CowString, SerializeLevel operations --- *)
Cow_eq ==
    /\ opRes.op = "none"
    /\ \E a \in CowStrings, b \in CowStrings :
           opRes' = [op |-> "eq", a |-> a, b |-> b, val |-> CowString_eq(a, b)]
    /\ UNCHANGED <<live, visitor, pos, pc, result, mat, matFrom, matOut, prev, meta, metaOut, event, eventOut>>

Cow_hash ==
    /\ opRes.op = "none"
    /\ \E a \in CowStrings, b \in CowStrings :
           opRes' = [op |-> "hash", a |-> a, b |-> b,
                     val |-> <<CowString_hash(a), CowString_hash(b)>>]
    /\ UNCHANGED <<live, visitor, pos, pc, result, mat, matFrom, matOut, prev, meta, metaOut, event, eventOut>>

Cow_hash32 ==
    /\ opRes.op = "none"
    /\ \E a \in CowStrings, b \in CowStrings :
           opRes' = [op |-> "hash32", a |-> a, b |-> b,
                     val |-> <<CowString_hash32(a), CowString_hash32(b)>>]
    /\ UNCHANGED <<live, visitor, pos, pc, result, mat, matFrom, matOut, prev, meta, metaOut, event, eventOut>>

Cow_cmp ==
    /\ opRes.op = "none"
    /\ \E a \in CowStrings, b \in CowStrings :
           opRes' = [op |-> "cmp", a |-> a, b |-> b, val |-> CowString_cmp(a, b)]
    /\ UNCHANGED <<live, visitor, pos, pc, result, mat, matFrom, matOut, prev, meta, metaOut, event, eventOut>>

Cow_to_owned ==
    /\ opRes.op = "none"
    /\ \E a \in CowStrings :
           opRes' = [op |-> "to_owned", a |-> a, b |-> a, val |-> CowString_to_owned(a),
                     copies |-> CowString_to_owned_copies(a)]
    /\ UNCHANGED <<live, visitor, pos, pc, result, mat, matFrom, matOut, prev, meta, metaOut, event, eventOut>>

Level_partial_cmp ==
    /\ opRes.op = "none"
    /\ \E a \in Levels, b \in Levels :
           opRes' = [op |-> "level_cmp", a |-> a, b |-> b,
                     val |-> SerializeLevel_partial_cmp(a, b)]
    /\ UNCHANGED <<live, visitor, pos, pc, result, mat, matFrom, matOut, prev, meta, metaOut, event, eventOut>>

(* ------------------------------ specification -------------------------- *)
\* Values and maps a caller can build for a De variant.
CallerValues ==
    {SerializeValue("Bool", TRUE), SerializeValue("I64", 1), SerializeValue("U64", 1),
     SerializeValue("F64", 1),
     SerializeValue("Str", Borrowed(<<97>>)), SerializeValue("Str", Owned(<<97>>))}
    \cup {SerializeValue("Debug", DebugRecord_Ser(d)) : d \in DebugVals}
    \cup {SerializeValue("Debug", DebugRecord_De(Borrowed(fmt_debug(d)))) : d \in DebugVals}
    \cup {SerializeValue("Debug", DebugRecord_De(Owned(fmt_debug(d)))) : d \in DebugVals}

CallerKeys == {Borrowed(n) : n \in Names} \cup {Owned(n) : n \in Names}

CallerMaps ==
    {BTreeMap_collect(<<>>, es) :
        es \in UNION {[1..n -> [k : CallerKeys, v : CallerValues]] : n \in 0..MaxFields}}

NoVisitor == [serializer |-> serialize_map(0), state |-> StateOk]

InitCommon ==
    /\ visitor = NoVisitor
    /\ pos = 0
    /\ pc = "idle"
    /\ result = None
    /\ matOut = None
    /\ prev = None
    /\ opRes = NoOp
    /\ event = None
    /\ eventOut = None

NoMetadata ==
    /\ meta = None
    /\ metaOut = None

\* The run starts from a borrowed entity wrapped by as_serde ...
InitLive ==
    /\ live \in {Ser(e) : e \in Entities}
    /\ mat = None
    /\ matFrom = "none"
    /\ InitCommon
    /\ NoMetadata

\* ... or from a Materialized wrapper the caller built.
InitCaller ==
    /\ live = None
    /\ mat \in {De(m) : m \in CallerMaps}
    /\ matFrom = "caller"
    /\ InitCommon
    /\ NoMetadata

\* ... or from a callsite's metadata, converted by as_serde.
InitMetadata ==
    /\ live = None
    /\ mat = None
    /\ matFrom = "none"
    /\ InitCommon
    /\ meta \in {[src |-> "as_serde", val |-> Metadata_as_serde(md)] : md \in Metadatas}
    /\ metaOut = None

Init == InitLive \/ InitCaller \/ InitMetadata

Next ==
    \/ SerializeRecordFields_serialize_Ser
    \/ SerializeSpanFields_serialize_Ser
    \/ SerializeRecord_serialize_Ser
    \/ record_bool
    \/ record_debug
    \/ record_u64
    \/ record_i64
    \/ record_f64
    \/ record_str
    \/ finish
    \/ take_serializer
    \/ SerializeRecordFields_to_owned
    \/ SerializeSpanFields_to_owned
    \/ SerializeRecord_to_owned
    \/ SerializeRecordFields_serialize_De
    \/ SerializeSpanFields_serialize_De
    \/ SerializeRecord_serialize_De
    \/ SerializeRecordFields_deserialize
    \/ SerializeSpanFields_deserialize
    \/ SerializeRecord_deserialize
    \/ SerializeMetadata_to_owned
    \/ SerializeMetadata_serialize
    \/ SerializeMetadata_deserialize

Spec == Init /\ [][Next]_vars

\* The pure operations of CowString and SerializeLevel, on drawn arguments.
InitCow ==
    /\ live = None
    /\ mat = None
    /\ matFrom = "none"
    /\ InitCommon
    /\ NoMetadata

NextCow ==
    \/ Cow_eq
    \/ Cow_hash
    \/ Cow_hash32
    \/ Cow_cmp
    \/ Cow_to_owned
    \/ Level_partial_cmp

SpecCow == InitCow /\ [][NextCow]_vars

\* The events of the request scenario, converted by as_serde.
InitEvent ==
    /\ live = None
    /\ mat = None
    /\ matFrom = "none"
    /\ visitor = NoVisitor
    /\ pos = 0
    /\ pc = "idle"
    /\ result = None
    /\ matOut = None
    /\ prev = None
    /\ opRes = NoOp
    /\ NoMetadata
    /\ event \in {[src |-> "as_serde", of |-> ev, val |-> Event_as_serde(ev)] : ev \in Events}
    /\ eventOut = None

NextEvent ==
    \/ SerializeEvent_serialize
    \/ SerializeEvent_to_owned

SpecEvent == InitEvent /\ [][NextEvent]_vars

(* ------------------------------ properties ----------------------------- *)
\* The map entry a callback stands for: the field's name with the value
\* under the variant of its kind, a debug value as its formatted text.
VariantOf(kind) ==
    CASE kind = "bool" -> "Bool"
      [] kind = "i64" -> "I64"
      [] kind = "u64" -> "U64"
      [] kind = "f64" -> "F64"
      [] kind = "str" -> "Str"
      [] kind = "debug" -> "Debug"

PushToken(f) ==
    <<f.name, [kind |-> VariantOf(f.value.kind),
               val |-> IF f.value.kind = "debug" THEN fmt_debug(f.value.val)
                       ELSE f.value.val]>>

PushTokens(e, n) == [i \in 1..n |-> PushToken(pushes(e)[i])]

\* C1: serializing the Live wrapper and serializing the Materialized wrapper
\* that to_owned makes of it hand the serializer the same sequence of map
\* entries (names, values, order, count).
C1_LiveEqualsMaterialized ==
    (result.kind = "Ok" /\ matFrom = "to_owned_Ser" /\ matOut.kind = "Ok")
        => result.out.entries = matOut.out.entries

\* C2: while no error is recorded every callback has made exactly one
\* serialize_entry call and committed its entry; once the k-th call has
\* failed, the recorded error is that k-th failure, k calls were made and
\* k - 1 entries committed, however many callbacks follow.
C2_ErrorShortCircuit ==
    IF visitor.state.kind = "Ok"
    THEN /\ visitor.serializer.calls = pos
         /\ Len(visitor.serializer.entries) = pos
    ELSE /\ visitor.state.src = "entry"
         /\ visitor.state.k <= pos
         /\ visitor.serializer.calls = visitor.state.k
         /\ Len(visitor.serializer.entries) = visitor.state.k - 1

\* A callback arrived after the failure was recorded.
C2_Witness ==
    /\ visitor.state.kind = "Err"
    /\ pos > visitor.state.k

\* C3: finish returns the recorded error and leaves the map open, or closes
\* the map once and returns the result of closing it; when field k failed
\* the serializer holds exactly the entries of the fields before k.
C3_Finish ==
    (pc = "done" /\ result.kind # "Taken" /\ result # Err("open", 0)) =>
        IF visitor.state.kind = "Err"
        THEN /\ result = visitor.state
             /\ visitor.serializer.ended = 0
             /\ visitor.serializer.entries = PushTokens(live.entity, result.k - 1)
        ELSE /\ visitor.serializer.ended = 1
             /\ \/ result = Ok(output(visitor.serializer))
                \/ result = Err("end", 0)
             /\ visitor.serializer.entries =
                    PushTokens(live.entity, Len(pushes(live.entity)))

\* The second of two fields failed: the first is committed, the error returned.
C3_Witness ==
    /\ pc = "done"
    /\ result = Err("entry", 2)
    /\ Len(visitor.serializer.entries) = 1
    /\ visitor.serializer.ended = 0

\* C4: two CowStrings are equal exactly when their contents are, and two of
\* the same content feed the same data to either hasher, whatever their
\* representations.
C4_ContentEqHash ==
    /\ opRes.op = "eq" => (opRes.val <=> (opRes.a.s = opRes.b.s))
    /\ (opRes.op \in {"hash", "hash32"} /\ opRes.a.s = opRes.b.s)
          => opRes.val[1] = opRes.val[2]

\* A borrowed and an owned string of the same content compared equal.
C4_Witness ==
    /\ opRes.op = "eq"
    /\ opRes.a.tag # opRes.b.tag
    /\ opRes.a.s = opRes.b.s
    /\ opRes.val

\* C5: cmp on CowStrings is the comparison of their contents.
C5_CmpByContent ==
    opRes.op = "cmp" => opRes.val = str_cmp(opRes.a.s, opRes.b.s)

\* No value of a map wrapper is a Live debug record.
NoLiveValue(m) ==
    \A i \in 1..Len(m) : m[i].v.kind = "Debug" => m[i].v.val.kind = "De"

\* C6: what deserialization yields is the De variant: of the map wrappers,
\* of every debug record in them, and of the metadata's field set.
C6_DeserializeYieldsDe ==
    /\ matFrom = "deserialize" => (mat.kind = "De" /\ NoLiveValue(mat.map))
    /\ (meta # None /\ meta.src = "deserialize") => meta.val.fields.kind = "De"

C6_Witness ==
    /\ matFrom = "deserialize"
    /\ \E i \in 1..Len(mat.map) : mat.map[i].v.kind = "Debug"

\* The value d is what the value s comes back as: the same kind and value,
\* a debug record as the De variant holding its text.
SameValue(s_, d) ==
    /\ d.kind = s_.kind
    /\ CASE s_.kind = "Debug" ->
               d.val.kind = "De" /\ as_str(d.val.val) = DebugRecord_serialize(s_.val)
         [] s_.kind = "Str" -> as_str(d.val) = as_str(s_.val)
         [] OTHER -> d.val = s_.val

\* C7: a Materialized wrapper that is serialized, deserialized and serialized
\* again gives the serialized form it gave first, and the deserialized map
\* holds the entries of the original, in its order.
C7_RoundTrip ==
    /\ matFrom = "deserialize" =>
          /\ Len(mat.map) = Len(prev.mat.map)
          /\ \A i \in 1..Len(mat.map) :
                /\ as_str(mat.map[i].k) = as_str(prev.mat.map[i].k)
                /\ SameValue(prev.mat.map[i].v, mat.map[i].v)
    /\ (matFrom = "deserialize" /\ matOut.kind = "Ok") => matOut = prev.out

\* C8: the entries handed to the map serializer are the callbacks, one entry
\* each, in the order made.
C8_VisitOrder ==
    /\ (pc = "record" /\ visitor.state.kind = "Ok")
          => visitor.serializer.entries = PushTokens(live.entity, pos)
    /\ result.kind = "Ok"
          => result.out.entries = PushTokens(live.entity, Len(pushes(live.entity)))

\* Two fields of one name were serialized, and both are in the output.
C8_Witness ==
    /\ result.kind = "Ok"
    /\ Len(result.out.entries) = 2
    /\ result.out.entries[1][1] = result.out.entries[2][1]

\* Every string of a map wrapper, a field set or a metadata has the tag.
MapStrings(m) ==
    {m[i].k : i \in 1..Len(m)}
    \cup {m[i].v.val : i \in {j \in 1..Len(m) : m[j].v.kind = "Str"}}
    \cup {m[i].v.val.val :
            i \in {j \in 1..Len(m) : m[j].v.kind = "Debug" /\ m[j].v.val.kind = "De"}}

MetaStrings(m) ==
    {m.name, m.target}
    \cup (IF m.module_path = None THEN {} ELSE {m.module_path.val})
    \cup (IF m.file = None THEN {} ELSE {m.file.val})
    \cup (IF m.fields.kind = "De" THEN {m.fields.vec[i] : i \in 1..Len(m.fields.vec)} ELSE {})

AllTagged(strings, tag) == \A c \in strings : c.tag = tag

Severity(l) ==
    CASE l = "Trace" -> 1
      [] l = "Debug" -> 2
      [] l = "Info" -> 3
      [] l = "Warn" -> 4
      [] l = "Error" -> 5

\* C10: under the ordering of SerializeLevel a level is Less than every
\* level of higher severity: Trace < Debug < Info < Warn < Error.
C10_LevelOrder ==
    (opRes.op = "level_cmp" /\ Severity(opRes.a) < Severity(opRes.b))
        => opRes.val = "Less"

\* C12: the map to_owned makes of a Live wrapper holds one entry per visited
\* field, and iterates in the order the fields were visited.
C12_OwnedKeepsVisitOrder ==
    matFrom = "to_owned_Ser" =>
        /\ Len(mat.map) = Len(pushes(live.entity))
        /\ \A i \in 1..Len(mat.map) :
              as_str(mat.map[i].k) = pushes(live.entity)[i].name

\* C13: to_owned of a Materialized wrapper keeps the content: as many
\* entries as the source map, and for each source entry an entry of the same
\* key text and the same value.
C13_OwnedKeepsContent ==
    matFrom = "to_owned_De" =>
        /\ Len(mat.map) = Len(prev.mat.map)
        /\ \A i \in 1..Len(prev.mat.map) : \E j \in 1..Len(mat.map) :
              /\ as_str(mat.map[j].k) = as_str(prev.mat.map[i].k)
              /\ SameValue(prev.mat.map[i].v, mat.map[j].v)

\* C14: when a Live wrapper was serialized without error, the entry count
\* the map was opened with is the number of entries written to it.
C14_DeclaredCount ==
    result.kind = "Ok" => result.out.len = Len(result.out.entries)

\* C15: take_serializer leaves the map open; it hands back the context,
\* holding the entry of every callback, when no error is recorded, and the
\* recorded error otherwise.
C15_TakeSerializer ==
    /\ result.kind = "Taken" =>
          /\ visitor.state.kind = "Ok"
          /\ result.ser = visitor.serializer
          /\ result.ser.ended = 0
          /\ result.ser.entries = PushTokens(live.entity, Len(pushes(live.entity)))
    /\ (pc = "done" /\ visitor.state.kind = "Err") =>
          /\ result = visitor.state
          /\ visitor.serializer.ended = 0

\* The context came back with the entries of two callbacks in it.
C15_Witness ==
    /\ result.kind = "Taken"
    /\ Len(result.ser.entries) = 2

RequestEventSerialized ==
    /\ event # None
    /\ event.src = "as_serde"
    /\ event.of.fields =
          <<[name |-> <<99, 111, 100, 101>>, value |-> [kind |-> "u64", val |-> 404]],
            [name |-> <<109, 115, 103>>,
             value |-> [kind |-> "str",
                        val |-> <<110, 111, 116, 32, 102, 111, 117, 110, 100>>]]>>
    /\ event.of.metadata.level = "WARN"
    /\ event.of.metadata.line = Some(88)
    /\ eventOut.kind = "Ok"

\* What the record's "metadata" entry carries: the name, the target and the
\* line of the callsite, and its level as the token of the same name.
MetadataCarried ==
    /\ eventOut.out.metadata.name = event.of.metadata.name
    /\ eventOut.out.metadata.target = event.of.metadata.target
    /\ eventOut.out.metadata.line = event.of.metadata.line
    /\ eventOut.out.metadata.level = event.of.metadata.level

\* A value written as it is, in no variant of SerializeValue.
Bare(val) == [kind |-> "bare", val |-> val]

\* C11 (as stated): the serialized request event is a record whose "fields"
\* entry maps code to 404 and msg to "not found", the values themselves, and
\* whose "metadata" entry carries name, target, line and the level as WARN.
C11_BareFieldValues ==
    RequestEventSerialized =>
        /\ eventOut.out.fields.entries =
              <<<<event.of.fields[1].name, Bare(event.of.fields[1].value.val)>>,
                <<event.of.fields[2].name, Bare(event.of.fields[2].value.val)>>>>
        /\ MetadataCarried
        /\ eventOut.out.metadata.level = "WARN"

\* C11 (amended): the serialized request event is a record whose "fields"
\* entry maps code to the U64 variant of SerializeValue holding 404 and msg
\* to the Str variant holding "not found", and whose "metadata" entry carries
\* name, target, line and the level as WARN; the metadata of every
\* serialized event carries its level as the upper-case token of that name.
C11_TaggedFieldValues ==
    /\ RequestEventSerialized =>
          /\ eventOut.out.fields.entries =
                <<<<event.of.fields[1].name, [kind |-> "U64", val |-> 404]>>,
                  <<event.of.fields[2].name,
                    [kind |-> "Str", val |-> event.of.fields[2].value.val]>>>>
          /\ MetadataCarried
          /\ eventOut.out.metadata.level = "WARN"
    /\ (event # None /\ event.src = "as_serde" /\ eventOut.kind = "Ok") => MetadataCarried

\* The request event was serialized, two entries in its "fields" map.
C11_Witness ==
    /\ RequestEventSerialized
    /\ Len(eventOut.out.fields.entries) = 2
    /\ eventOut.out.fields.len = 2

====
